---- MODULE Spec2Model ----
(***************************************************************************)
(* A model of utils/validate_versions.py: the script that checks that the  *)
(* Python packages of the repository carry one version string, or writes a *)
(* new version into their __init__.py files, into the Unity package        *)
(* manifest and into Academy.cs.                                           *)
(*                                                                         *)
(* Text is modelled character by character: a Python str is a sequence of  *)
(* one-character strings, a file is the str it holds.  An Optional[str] is *)
(* a set: {} is None, {s} is the string s.                                 *)
(***************************************************************************)
EXTENDS Integers, Sequences, FiniteSets, TLC

(***************************************************************************)
(* The program's string constants.                                         *)
(***************************************************************************)
\* VERSION_LINE_START = "__version__ = "
VERSION_LINE_START ==
    <<"_","_","v","e","r","s","i","o","n","_","_"," ","="," ">>

\* PYTHON_VERSION_FILE_TEMPLATE, the text before {version}
TEMPLATE_HEAD ==
    <<"\n","#"," ","V","e","r","s","i","o","n"," ","o","f"," ","t","h","e",
      " ","l","i","b","r","a","r","y"," ","t","h","a","t"," ","w","i","l","l",
      " ","b","e"," ","u","s","e","d"," ","t","o"," ","u","p","l","o","a","d",
      " ","t","o"," ","p","y","p","i","\n","_","_","v","e","r","s","i","o",
      "n","_","_"," ","="," ">>

\* PYTHON_VERSION_FILE_TEMPLATE, the text between {version} and {release_tag}
TEMPLATE_MID ==
    <<"\n","\n","#"," ","G","i","t"," ","t","a","g"," ","t","h","a","t"," ",
      "w","i","l","l"," ","b","e"," ","c","h","e","c","k","e","d"," ","t","o",
      " ","d","e","t","e","r","m","i","n","e"," ","w","h","e","t","h","e","r",
      " ","t","o"," ","t","r","i","g","g","e","r"," ","u","p","l","o","a","d",
      " ","t","o"," ","p","y","p","i","\n","_","_","r","e","l","e","a","s",
      "e","_","t","a","g","_","_"," ","="," ">>

\* PYTHON_VERSION_FILE_TEMPLATE, the text after {release_tag}
TEMPLATE_TAIL ==
    <<"\n">>

\* the text None that _escape_non_none returns for an absent value
NONE_TEXT ==
    <<"N","o","n","e">>

\* the double quote of f'"{s}"'
QUOTE ==
    <<"\"">>

\* the suffix of csharp_version + "-preview"
PREVIEW_SUFFIX ==
    <<"-","p","r","e","v","i","e","w">>

\* needle = "internal const string k_PackageVersion"
needle ==
    <<"i","n","t","e","r","n","a","l"," ","c","o","n","s","t"," ","s","t","r",
      "i","n","g"," ","k","_","P","a","c","k","a","g","e","V","e","r","s","i",
      "o","n">>

\* the separator of l.split(" = ")
SEPARATOR ==
    <<" ","="," ">>

\* f' = "{new_version}";\n', the text before {new_version}
RIGHT_HEAD ==
    <<" ","="," ","\"">>

\* f' = "{new_version}";\n', the text after {new_version}
RIGHT_TAIL ==
    <<"\"",";","\n">>

\* the line terminator readlines() splits at
NEWLINE ==
    <<"\n">>

\* DIRECTORIES, in the order the loops visit them
DIRECTORIES ==
    <<"ml-agents/mlagents/trainers", "ml-agents-envs/mlagents_envs",
      "gym-unity/gym_unity">>

DirectorySet == {DIRECTORIES[k] : k \in 1..Len(DIRECTORIES)}

\* indent=2 of json.dump
JSON_INDENT == 2

\* The exit status of a process that ends by an exception nobody catches: the
\* script catches nothing, so the RuntimeError and the errors of open() and of
\* the unpacking leave through the interpreter, which exits with status 1.
UNCAUGHT_EXIT_STATUS == 1

(***************************************************************************)
(* Python's str operations, as the script uses them.                       *)
(***************************************************************************)
None == {}

Some(s) == {s}

Value(opt) == CHOOSE s \in opt : TRUE

\* the truth value of an Optional[str]: None and "" are false
Truthy(opt) == opt # None /\ opt # Some(<<>>)

SetMin(S) == CHOOSE k \in S : \A j \in S : k <= j

\* the index of the first occurrence of p in s, 0 when there is none
Find(s, p) ==
    LET hits == {k \in 1..(Len(s) - Len(p) + 1) : SubSeq(s, k, k + Len(p) - 1) = p}
    IN  IF hits = {} THEN 0 ELSE SetMin(hits)

\* p in s
Contains(s, p) == Find(s, p) # 0

\* s.startswith(p)
StartsWith(s, p) == Len(s) >= Len(p) /\ SubSeq(s, 1, Len(p)) = p

\* s.endswith(p)
EndsWith(s, p) == Len(s) >= Len(p) /\ SubSeq(s, Len(s) - Len(p) + 1, Len(s)) = p

\* s.replace(old, new): every occurrence, left to right, without overlap
RECURSIVE Replace(_, _, _)
Replace(s, old, new) ==
    LET k == Find(s, old)
    IN  IF k = 0 THEN s
        ELSE SubSeq(s, 1, k - 1) \o new
             \o Replace(SubSeq(s, k + Len(old), Len(s)), old, new)

\* s.split(sep): the list of the parts between the occurrences of sep
RECURSIVE Split(_, _)
Split(s, sep) ==
    LET k == Find(s, sep)
    IN  IF k = 0 THEN <<s>>
        ELSE <<SubSeq(s, 1, k - 1)>> \o Split(SubSeq(s, k + Len(sep), Len(s)), sep)

Whitespace == {" ", "\n", "\t", "\r"}

\* s.strip()
Strip(s) ==
    LET solid == {k \in 1..Len(s) : s[k] \notin Whitespace}
    IN  IF solid = {} THEN <<>>
        ELSE SubSeq(s, SetMin(solid), CHOOSE k \in solid : \A j \in solid : j <= k)

\* f.readlines(): the lines of the text, each with its terminator
RECURSIVE ReadLines(_)
ReadLines(text) ==
    LET k == Find(text, NEWLINE)
    IN  IF text = <<>> THEN <<>>
        ELSE IF k = 0 THEN <<text>>
        ELSE <<SubSeq(text, 1, k)>> \o ReadLines(SubSeq(text, k + 1, Len(text)))

\* f.writelines(lines): the lines one after the other
RECURSIVE WriteLines(_)
WriteLines(lines) ==
    IF lines = <<>> THEN <<>> ELSE Head(lines) \o WriteLines(Tail(lines))

(***************************************************************************)
(* The script's functions on text.                                         *)
(***************************************************************************)
\* _escape_non_none(s)
escape_non_none(s) == IF s # None THEN QUOTE \o Value(s) \o QUOTE ELSE NONE_TEXT

\* PYTHON_VERSION_FILE_TEMPLATE.format(version=..., release_tag=...)
TemplateFormat(version, release_tag) ==
    TEMPLATE_HEAD \o version \o TEMPLATE_MID \o release_tag \o TEMPLATE_TAIL

\* new_contents of set_version
new_contents(python_version, release_tag) ==
    TemplateFormat(escape_non_none(python_version), escape_non_none(release_tag))

\* extract_version_string on the text of a file that exists: the first line
\* that starts with VERSION_LINE_START, with every occurrence of it removed
\* and the result stripped; None when no line starts with it
extract_version_string(text) ==
    LET lines == ReadLines(text)
        hits  == {k \in 1..Len(lines) : StartsWith(lines[k], VERSION_LINE_START)}
    IN  IF hits = {} THEN None
        ELSE Some(Strip(Replace(lines[SetMin(hits)], VERSION_LINE_START, <<>>)))

\* versions_ok with "or None in versions" left out
versions_ok_count_only(versions) == Cardinality(versions) = 1

\* versions_ok with "len(versions) != 1" left out
versions_ok_none_only(versions) == None \notin versions

\* the test of check_versions on the versions it collected
versions_ok(versions) == ~(Cardinality(versions) # 1 \/ None \in versions)

\* package_version without the suffix
package_version_without_suffix(csharp_version) == Value(csharp_version)

\* package_version of set_version
package_version(csharp_version) == Value(csharp_version) \o PREVIEW_SUFFIX

(***************************************************************************)
(* The package manifest.  The file is a JSON object: its members in the    *)
(* order of the text (a JSON text may repeat a key) and the indentation it *)
(* is written with.  json.load makes a dict of it: one entry per key, in   *)
(* the order the keys first appear, with the value of the key's last       *)
(* member.  json.dump writes the dict's entries with indent=2.             *)
(***************************************************************************)
Keys(members) == {members[k][1] : k \in 1..Len(members)}

\* the value json.load gives a key: that of its last member
Lookup(members, key) ==
    LET at == {k \in 1..Len(members) : members[k][1] = key}
    IN  members[CHOOSE k \in at : \A j \in at : j <= k][2]

\* json.load(f)
RECURSIVE DictOf(_, _)
DictOf(members, all) ==
    IF members = <<>> THEN <<>>
    ELSE LET rest == DictOf(SubSeq(members, 1, Len(members) - 1), all)
             key  == members[Len(members)][1]
         IN  IF key \in Keys(rest) THEN rest
             ELSE rest \o <<(<<key, Lookup(all, key)>>)>>

json_load(file) == DictOf(file.members, file.members)

\* json.dump(package_json, f, indent=2)
json_dump(dict) == [indent |-> JSON_INDENT, members |-> dict]

\* package_json["version"] = new_version, when "version" in package_json
SetItem(dict, key, value) ==
    [k \in 1..Len(dict) |-> IF dict[k][1] = key THEN <<key, value>> ELSE dict[k]]

\* set_package_version without the test "version" in package_json: the
\* assignment then adds the key to a dict that has none
set_package_version_adding(file, new_version) ==
    LET package_json == json_load(file)
    IN  json_dump(IF "version" \in Keys(package_json)
                  THEN SetItem(package_json, "version", new_version)
                  ELSE package_json \o << <<"version", new_version>> >>)

\* set_package_version: the manifest file it leaves
set_package_version(file, new_version) ==
    LET package_json == json_load(file)
    IN  json_dump(IF "version" \in Keys(package_json)
                  THEN SetItem(package_json, "version", new_version)
                  ELSE package_json)

(***************************************************************************)
(* Academy.cs.                                                             *)
(***************************************************************************)
\* the indices of the lines that hold the needle
NeedleLines(lines) == {k \in 1..Len(lines) : Contains(lines[k], needle)}

\* lines[i] = left + right of the loop, for a line the split leaves in two parts
RewriteLine(l, new_version) ==
    Split(l, SEPARATOR)[1] \o RIGHT_HEAD \o new_version \o RIGHT_TAIL

\* set_academy_version_string with the file written before the count is tested
set_academy_version_string_writing_first(text, new_version) ==
    LET lines == ReadLines(text)
        found == NeedleLines(lines)
    IN  IF \E k \in found : Len(Split(lines[k], SEPARATOR)) # 2
        THEN [error |-> "ValueError", text |-> text]
        ELSE [error |-> IF Cardinality(found) # 1 THEN "RuntimeError" ELSE "",
              text  |-> WriteLines([k \in 1..Len(lines) |->
                            IF k \in found THEN RewriteLine(lines[k], new_version)
                            ELSE lines[k]])]

\* set_academy_version_string: the error it raises ("" when none) and the text
\* of Academy.cs it leaves.  "left, right = l.split(...)" raises ValueError at
\* the first line with the needle that the split does not leave in exactly two
\* parts; after the loop a count other than one raises RuntimeError; the file
\* is written only after both.
set_academy_version_string(text, new_version) ==
    LET lines == ReadLines(text)
        found == NeedleLines(lines)
    IN  IF \E k \in found : Len(Split(lines[k], SEPARATOR)) # 2
        THEN [error |-> "ValueError", text |-> text]
        ELSE IF Cardinality(found) # 1
        THEN [error |-> "RuntimeError", text |-> text]
        ELSE [error |-> "",
              text  |-> WriteLines([k \in 1..Len(lines) |->
                            IF k \in found THEN RewriteLine(lines[k], new_version)
                            ELSE lines[k]])]

(***************************************************************************)
(* The values the runs are tried on: versions, a release tag, and pieces   *)
(* of the files' texts.                                                    *)
(***************************************************************************)
\* '0.16.0'
V_0_16_0 ==
    <<"0",".","1","6",".","0">>

\* '0.15.0'
V_0_15_0 ==
    <<"0",".","1","5",".","0">>

\* '9.9.9'
V_9_9_9 ==
    <<"9",".","9",".","9">>

\* a version that holds VERSION_LINE_START
V_MARKED ==
    <<"a","_","_","v","e","r","s","i","o","n","_","_"," ","="," ","b">>

\* '1.0.0'
CS_1_0_0 ==
    <<"1",".","0",".","0">>

\* a C# version that holds the separator
CS_SEPARATED ==
    <<"1"," ","="," ","2">>

\* 'r1'
TAG_R1 ==
    <<"r","1">>

\* a version line with blanks around the token
FILE_PADDED ==
    <<"_","_","v","e","r","s","i","o","n","_","_"," ","="," "," "," ","\"",
      "0",".","1","6",".","0","\""," "," ","\n">>

\* no line starts with VERSION_LINE_START
FILE_INDENTED ==
    <<"#"," ","o","l","d","\n"," "," ","_","_","v","e","r","s","i","o","n",
      "_","_"," ","="," ","\"","0",".","1","6",".","0","\"","\n">>

\* 'class Academy\n{\n'
ACADEMY_OPEN ==
    <<"c","l","a","s","s"," ","A","c","a","d","e","m","y","\n","{","\n">>

\* '}\n'
ACADEMY_CLOSE ==
    <<"}","\n">>

\* '    internal const string k_PackageVersion'
CONST_LEFT ==
    <<" "," "," "," ","i","n","t","e","r","n","a","l"," ","c","o","n","s","t",
      " ","s","t","r","i","n","g"," ","k","_","P","a","c","k","a","g","e","V",
      "e","r","s","i","o","n">>

\* ' = "0.15.0-preview";\n'
OLD_RIGHT ==
    <<" ","="," ","\"","0",".","1","5",".","0","-","p","r","e","v","i","e",
      "w","\"",";","\n">>

\* ' = "a = b";\n'
SEPARATED_RIGHT ==
    <<" ","="," ","\"","a"," ","="," ","b","\"",";","\n">>

\* 'com.unity.ml-agents'
NAME_VALUE ==
    <<"c","o","m",".","u","n","i","t","y",".","m","l","-","a","g","e","n","t",
      "s">>

\* 'ml-agents'
OLD_NAME_VALUE ==
    <<"m","l","-","a","g","e","n","t","s">>

\* '2018.4'
UNITY_VALUE ==
    <<"2","0","1","8",".","4">>

(***************************************************************************)
(* The files the runs start from and the arguments they are given.         *)
(***************************************************************************)
\* how many times the script is run, one run after the other
MaxRuns == 2

\* an __init__.py that exists: as set_version writes it, with blanks around
\* the token, or without a line that starts with VERSION_LINE_START
InitFileTexts ==
    { TemplateFormat(QUOTE \o V_0_16_0 \o QUOTE, NONE_TEXT),
      TemplateFormat(QUOTE \o V_0_15_0 \o QUOTE, NONE_TEXT),
      FILE_PADDED,
      FILE_INDENTED }

MANIFEST_WITH_VERSION ==
    [indent  |-> 4,
     members |-> << <<"name", OLD_NAME_VALUE>>,
                    <<"version", V_0_15_0 \o PREVIEW_SUFFIX>>,
                    <<"unity", UNITY_VALUE>>,
                    <<"name", NAME_VALUE>> >>]

MANIFEST_WITHOUT_VERSION ==
    [indent  |-> 2,
     members |-> << <<"name", NAME_VALUE>>, <<"unity", UNITY_VALUE>> >>]

InitManifests == {MANIFEST_WITH_VERSION, MANIFEST_WITHOUT_VERSION}

\* Academy.cs with the constant's line once, never, twice, and once with a
\* separator in its right-hand side
InitAcademyTexts ==
    { ACADEMY_OPEN \o CONST_LEFT \o OLD_RIGHT \o ACADEMY_CLOSE,
      ACADEMY_OPEN \o ACADEMY_CLOSE,
      ACADEMY_OPEN \o CONST_LEFT \o OLD_RIGHT \o CONST_LEFT \o OLD_RIGHT
          \o ACADEMY_CLOSE,
      ACADEMY_OPEN \o CONST_LEFT \o SEPARATED_RIGHT \o ACADEMY_CLOSE }

\* <<--python-version, --csharp-version, --release-tag>> of a run of the script
MainArgs ==
    { <<None, None, None>>,
      <<Some(<<>>), Some(CS_1_0_0), None>>,
      <<Some(V_9_9_9), None, None>>,
      <<Some(V_MARKED), None, None>>,
      <<Some(V_9_9_9), Some(CS_1_0_0), Some(TAG_R1)>>,
      <<Some(V_9_9_9), Some(CS_SEPARATED), None>>,
      <<Some(V_0_16_0), Some(<<>>), None>> }

\* the arguments of a call of set_version that does not come from the command
\* line: the Python version may then be None
CallArgs ==
    { <<None, None, Some(TAG_R1)>>,
      <<None, Some(CS_1_0_0), None>> }

(***************************************************************************)
(* The state: the files, and the run of the script in progress.            *)
(***************************************************************************)
VARIABLES
    version_files,    \* directory -> the text of its __init__.py
    present,          \* the directories whose __init__.py exists
    package_json,     \* com.unity.ml-agents/package.json
    academy,          \* the text of com.unity.ml-agents/Runtime/Academy.cs
    pc,               \* where the run is
    entry,            \* "main": the script was run; "set_version": it was called
    args,             \* <<python_version, csharp_version, release_tag>>
    i,                \* the index in DIRECTORIES of the loop in progress
    version_by_dir,   \* check_versions' dict
    ok,               \* what check_versions returned, {} while it has not
    outcome,          \* how the run ended
    error,            \* the exception that ended it, "" when none
    exit_code,        \* the process's exit status, {} while there is none
    before,           \* the files as the run found them
    last,             \* the run before this one
    runs              \* the runs that have ended

vars ==
    <<version_files, present, package_json, academy, pc, entry, args, i,
      version_by_dir, ok, outcome, error, exit_code, before, last, runs>>

files == <<version_files, present, package_json, academy>>

locals == <<version_by_dir, ok, outcome, error, exit_code>>

python_version == args[1]

csharp_version == args[2]

release_tag == args[3]

Snapshot(vf, pr, pj, ac) ==
    [version_files |-> vf, present |-> pr, package_json |-> pj, academy |-> ac]

NoRun == [kind |-> "none", args |-> <<None, None, None>>, outcome |-> "none"]

Init ==
    /\ version_files \in [DirectorySet -> InitFileTexts \cup {<<>>}]
    /\ present = {d \in DirectorySet : version_files[d] # <<>>}
    /\ package_json \in InitManifests
    /\ academy \in InitAcademyTexts
    /\ pc = "idle"
    /\ entry = "none"
    /\ args = <<None, None, None>>
    /\ i = 0
    /\ version_by_dir = <<>>
    /\ ok = {}
    /\ outcome = "none"
    /\ error = ""
    /\ exit_code = {}
    /\ before = Snapshot(version_files, present, package_json, academy)
    /\ last = NoRun
    /\ runs = 0

\* exit_status of a script that caught its errors and still ended with status 0
exit_status_swallowing(how, raised, returned) ==
    IF how # "main" THEN {}
    ELSE IF returned = {} THEN {0}
    ELSE IF TRUE \in returned THEN {0} ELSE {1}

\* The exit status of the script once its run has ended: return_code when
\* check_versions returned, 0 when set_version returned, and that of an
\* uncaught exception otherwise.  A call of set_version ends no process.
exit_status(how, raised, returned) ==
    IF how # "main" THEN {}
    ELSE IF raised # "" THEN {UNCAUGHT_EXIT_STATUS}
    ELSE IF returned = {} THEN {0}
    ELSE IF TRUE \in returned THEN {0} ELSE {1}

\* __main__: parse the arguments and take the branch of args.python_version
Main(a) ==
    /\ pc = "idle"
    /\ runs < MaxRuns
    /\ entry' = "main"
    /\ args' = a
    /\ i' = 1
    /\ pc' = IF Truthy(a[1]) THEN "set_version" ELSE "check_versions"
    /\ UNCHANGED <<files, locals, before, last, runs>>

\* set_version called with arguments of the caller's choice
CallSetVersion(a) ==
    /\ pc = "idle"
    /\ runs < MaxRuns
    /\ entry' = "set_version"
    /\ args' = a
    /\ i' = 1
    /\ pc' = "set_version"
    /\ UNCHANGED <<files, locals, before, last, runs>>

\* check_versions, one turn of its loop: open() raises when the file is not
\* there, and nothing catches it
CheckVersionsStep ==
    /\ pc = "check_versions"
    /\ i <= Len(DIRECTORIES)
    /\ LET directory == DIRECTORIES[i]
       IN  IF directory \in present
           THEN /\ version_by_dir' = version_by_dir @@
                       (directory :> extract_version_string(version_files[directory]))
                /\ i' = i + 1
                /\ UNCHANGED <<pc, outcome, error, exit_code>>
           ELSE /\ pc' = "exit"
                /\ outcome' = "raised"
                /\ error' = "FileNotFoundError"
                /\ exit_code' = exit_status(entry, "FileNotFoundError", ok)
                /\ UNCHANGED <<version_by_dir, i>>
    /\ UNCHANGED <<files, entry, args, ok, before, last, runs>>

\* check_versions after its loop, and sys.exit(return_code)
CheckVersionsReturn ==
    /\ pc = "check_versions"
    /\ i > Len(DIRECTORIES)
    /\ LET versions == {version_by_dir[d] : d \in DOMAIN version_by_dir}
       IN  /\ ok' = {versions_ok(versions)}
           /\ exit_code' = exit_status(entry, "", {versions_ok(versions)})
    /\ pc' = "exit"
    /\ outcome' = "returned"
    /\ UNCHANGED <<files, entry, args, i, version_by_dir, error, before, last, runs>>

\* SetVersionWrite with a loop that leaves out the last directory
SetVersionWrite_skipping_last ==
    /\ pc = "set_version"
    /\ i <= Len(DIRECTORIES)
    /\ version_files' =
           IF i < Len(DIRECTORIES)
           THEN [version_files EXCEPT ![DIRECTORIES[i]] = new_contents(python_version, release_tag)]
           ELSE version_files
    /\ present' = IF i < Len(DIRECTORIES) THEN present \cup {DIRECTORIES[i]} ELSE present
    /\ i' = i + 1
    /\ UNCHANGED <<package_json, academy, pc, entry, args, locals, before, last, runs>>

\* set_version, one turn of its loop: open(path, "w") and f.write(new_contents)
SetVersionWrite ==
    /\ pc = "set_version"
    /\ i <= Len(DIRECTORIES)
    /\ version_files' =
           [version_files EXCEPT ![DIRECTORIES[i]] = new_contents(python_version, release_tag)]
    /\ present' = present \cup {DIRECTORIES[i]}
    /\ i' = i + 1
    /\ UNCHANGED <<package_json, academy, pc, entry, args, locals, before, last, runs>>

\* set_version after its loop: "if csharp_version is not None"
SetVersionBranch ==
    /\ pc = "set_version"
    /\ i > Len(DIRECTORIES)
    /\ IF csharp_version # None
       THEN /\ pc' = "set_package_version"
            /\ UNCHANGED <<outcome, exit_code>>
       ELSE /\ pc' = "exit"
            /\ outcome' = "completed"
            /\ exit_code' = exit_status(entry, "", {})
    /\ UNCHANGED <<files, entry, args, i, version_by_dir, ok, error, before, last, runs>>

\* set_package_version(package_version)
SetPackageVersion ==
    /\ pc = "set_package_version"
    /\ package_json' = set_package_version(package_json, package_version(csharp_version))
    /\ pc' = "set_academy_version_string"
    /\ UNCHANGED <<version_files, present, academy, entry, args, i, locals, before,
                   last, runs>>

\* set_academy_version_string(package_version), and the end of set_version
SetAcademyVersionString ==
    /\ pc = "set_academy_version_string"
    /\ LET result == set_academy_version_string(academy, package_version(csharp_version))
       IN  /\ academy' = result.text
           /\ error' = result.error
           /\ outcome' = IF result.error = "" THEN "completed" ELSE "aborted"
           /\ exit_code' = exit_status(entry, result.error, {})
    /\ pc' = "exit"
    /\ UNCHANGED <<version_files, present, package_json, entry, args, i,
                   version_by_dir, ok, before, last, runs>>

\* The run is over: what it held in memory is gone, the files stay.
Exit ==
    /\ pc = "exit"
    /\ pc' = "idle"
    /\ last' = IF outcome \in {"completed", "aborted"}
               THEN [kind |-> "set_version", args |-> args, outcome |-> outcome]
               ELSE [kind |-> "check_versions", args |-> <<None, None, None>>,
                     outcome |-> outcome]
    /\ before' = Snapshot(version_files, present, package_json, academy)
    /\ runs' = runs + 1
    /\ entry' = "none"
    /\ args' = <<None, None, None>>
    /\ i' = 0
    /\ version_by_dir' = <<>>
    /\ ok' = {}
    /\ outcome' = "none"
    /\ error' = ""
    /\ exit_code' = {}
    /\ UNCHANGED files

Next ==
    \/ \E a \in MainArgs : Main(a)
    \/ \E a \in CallArgs : CallSetVersion(a)
    \/ CheckVersionsStep
    \/ CheckVersionsReturn
    \/ SetVersionWrite
    \/ SetVersionBranch
    \/ SetPackageVersion
    \/ SetAcademyVersionString
    \/ Exit

Spec == Init /\ [][Next]_vars

(***************************************************************************)
(* What the properties below speak of.                                     *)
(***************************************************************************)
\* a run of check_versions from the command line has ended
VerificationEnded ==
    pc = "exit" /\ entry = "main" /\ outcome \in {"returned", "raised"}

\* a run of set_version has ended
WriteEnded == pc = "exit" /\ outcome \in {"completed", "aborted"}

\* set_version has left its loop over DIRECTORIES
ComponentsWritten ==
    \/ pc = "set_version" /\ i > Len(DIRECTORIES)
    \/ pc \in {"set_package_version", "set_academy_version_string"}
    \/ WriteEnded

\* the tokens of the __init__.py files that exist
Tokens == {extract_version_string(version_files[d]) : d \in present}

\* the lines of Academy.cs as the run found it, and as it is
OldLines == ReadLines(before.academy)

NewLines == ReadLines(academy)

\* everything left of the first separator of a line
LeftOfFirstSeparator(l) == SubSeq(l, 1, Find(l, SEPARATOR) - 1)

FilesNow == Snapshot(version_files, present, package_json, academy)

(***************************************************************************)
(* C1.  In verification mode, whatever the __init__.py files hold,         *)
(* check_versions returns True and the exit status is 0 exactly when the   *)
(* tokens extracted from the directories are one token and that token is   *)
(* not None; otherwise it returns False and the exit status is 1.          *)
(***************************************************************************)
C1_VerificationVerdict ==
    (VerificationEnded /\ present = DirectorySet) =>
        IF Cardinality(Tokens) = 1 /\ None \notin Tokens
        THEN ok = {TRUE} /\ exit_code = {0}
        ELSE ok = {FALSE} /\ exit_code = {1}

C1_Witness ==
    /\ VerificationEnded
    /\ present = DirectorySet
    /\ ok = {TRUE}
    /\ exit_code = {0}
    /\ \E d \in DirectorySet : version_files[d] = FILE_PADDED

(***************************************************************************)
(* C2, as claimed.  check_versions always returns a boolean and never      *)
(* raises: when a token differs from the others, or a file has no version  *)
(* line, or a file is missing, it returns False.                           *)
(***************************************************************************)
C2_NeverRaises ==
    (/\ VerificationEnded
     /\ \/ Cardinality(Tokens) > 1
        \/ None \in Tokens
        \/ present # DirectorySet)
    => (error = "" /\ ok = {FALSE})

(***************************************************************************)
(* C2, amended.  When every __init__.py exists, check_versions returns a   *)
(* boolean and does not raise, and it returns False when a token differs   *)
(* from the others or a file has no version line.  When a file is missing, *)
(* open() raises FileNotFoundError and check_versions returns nothing.     *)
(***************************************************************************)
C2_ReturnsWhenFilesExist ==
    VerificationEnded =>
        IF present = DirectorySet
        THEN /\ error = ""
             /\ ok \in {{TRUE}, {FALSE}}
             /\ (Cardinality(Tokens) > 1 \/ None \in Tokens) => ok = {FALSE}
        ELSE error = "FileNotFoundError" /\ ok = {}

C2_Witness ==
    /\ VerificationEnded
    /\ present = DirectorySet
    /\ Cardinality(Tokens) > 1
    /\ None \notin Tokens
    /\ ok = {FALSE}

(***************************************************************************)
(* C3.  Once set_version has overwritten the __init__.py files, whether    *)
(* the Python version and the release tag are given or None and whatever   *)
(* the files held, all of them hold the same text, and the check_versions  *)
(* that runs next returns True; also when set_version then aborts.         *)
(***************************************************************************)
C3_WrittenFilesAgree ==
    /\ ComponentsWritten =>
           /\ present = DirectorySet
           /\ \A d, e \in DirectorySet : version_files[d] = version_files[e]
    /\ (VerificationEnded /\ last.kind = "set_version") => ok = {TRUE}

C3_Witness ==
    /\ VerificationEnded
    /\ last.kind = "set_version"
    /\ last.outcome = "aborted"
    /\ last.args[1] = None
    /\ ok = {TRUE}

(***************************************************************************)
(* C4, as claimed.  After set_version(V, ...) with no release tag, for     *)
(* every Python version V, extract_version_string on each __init__.py      *)
(* returns the token that was written: V between double quotes.            *)
(***************************************************************************)
C4_RoundTrip ==
    (/\ pc = "exit"
     /\ outcome = "returned"
     /\ last.kind = "set_version"
     /\ last.args[1] # None
     /\ last.args[3] = None)
    => \A d \in DirectorySet :
           version_by_dir[d] = Some(QUOTE \o Value(last.args[1]) \o QUOTE)

(***************************************************************************)
(* C5, as claimed.  set_version is idempotent: when a call has completed,  *)
(* a second call with the same arguments completes too and leaves every    *)
(* __init__.py, the manifest and Academy.cs as the first call left them.   *)
(***************************************************************************)
C5_Idempotent ==
    (/\ WriteEnded
     /\ last.kind = "set_version"
     /\ last.outcome = "completed"
     /\ last.args = args)
    => (outcome = "completed" /\ FilesNow = before)

(***************************************************************************)
(* C6.  With a C# version given and the needle in no line or in more than  *)
(* one line of Academy.cs, set_version aborts with an error, Academy.cs is *)
(* as it was before the call, and the __init__.py files and the manifest   *)
(* keep what the call wrote into them.                                     *)
(***************************************************************************)
C6_AbortKeepsAcademy ==
    (/\ WriteEnded
     /\ csharp_version # None
     /\ Cardinality(NeedleLines(OldLines)) # 1)
    => /\ outcome = "aborted"
       /\ error # ""
       /\ academy = before.academy
       /\ \A d \in DirectorySet :
              /\ d \in present
              /\ version_files[d] = new_contents(python_version, release_tag)
       /\ package_json.indent = JSON_INDENT
       /\ "version" \in Keys(before.package_json.members) =>
              Lookup(package_json.members, "version")
                  = Value(csharp_version) \o PREVIEW_SUFFIX

C6_Witness ==
    /\ WriteEnded
    /\ csharp_version # None
    /\ Cardinality(NeedleLines(OldLines)) > 1
    /\ outcome = "aborted"
    /\ error = "RuntimeError"
    /\ academy = before.academy
    /\ package_json # before.package_json
    /\ \E d \in DirectorySet : version_files[d] # before.version_files[d]

(***************************************************************************)
(* C7.  set_version leaves the manifest and Academy.cs as they are when no *)
(* C# version is given.  When a version C is given the manifest is written *)
(* again, and when the call completes the manifest's version field, if it  *)
(* has one, and the string literal of the needle's line are C followed by  *)
(* "-preview".                                                             *)
(***************************************************************************)
C7_NativeVersion ==
    WriteEnded =>
        IF csharp_version = None
        THEN package_json = before.package_json /\ academy = before.academy
        ELSE /\ package_json.indent = JSON_INDENT
             /\ outcome = "completed" =>
                    /\ "version" \in Keys(package_json.members) =>
                           Lookup(package_json.members, "version")
                               = Value(csharp_version) \o PREVIEW_SUFFIX
                    /\ \A k \in NeedleLines(OldLines) :
                           EndsWith(NewLines[k],
                                    RIGHT_HEAD \o Value(csharp_version)
                                        \o PREVIEW_SUFFIX \o RIGHT_TAIL)

C7_Witness ==
    /\ WriteEnded
    /\ outcome = "completed"
    /\ csharp_version = Some(CS_1_0_0)
    /\ "version" \in Keys(package_json.members)
    /\ Lookup(package_json.members, "version") = CS_1_0_0 \o PREVIEW_SUFFIX
    /\ academy = ACADEMY_OPEN \o CONST_LEFT \o RIGHT_HEAD \o CS_1_0_0
                     \o PREVIEW_SUFFIX \o RIGHT_TAIL \o ACADEMY_CLOSE
    /\ academy # before.academy

(***************************************************************************)
(* C8, as claimed.  When write mode finds the needle in no line or in more *)
(* than one, the process ends with an exit status that is not 0 and is not *)
(* the status 1 of a failed verification.                                  *)
(***************************************************************************)
C8_DistinctExitStatus ==
    (pc = "exit" /\ entry = "main" /\ error = "RuntimeError")
    => (exit_code # {} /\ 0 \notin exit_code /\ 1 \notin exit_code)

(***************************************************************************)
(* C8, amended.  When write mode finds the needle in no line or in more    *)
(* than one, the RuntimeError is caught by nothing and the process ends    *)
(* with exit status 1, which is also the status of a failed verification.  *)
(***************************************************************************)
C8_UncaughtExitStatus ==
    /\ (pc = "exit" /\ entry = "main" /\ error = "RuntimeError")
       => (outcome = "aborted" /\ exit_code = {1})
    /\ (VerificationEnded /\ ok = {FALSE}) => exit_code = {1}

C8_Witness ==
    /\ pc = "exit"
    /\ entry = "main"
    /\ error = "RuntimeError"
    /\ Cardinality(NeedleLines(OldLines)) = 0
    /\ exit_code = {1}

(***************************************************************************)
(* C9, as claimed.  Whenever the needle is in exactly one line of          *)
(* Academy.cs, set_academy_version_string(P) completes and makes that line *)
(* what is left of its first " = ", followed by ' = "P";' and a newline,   *)
(* whatever its right-hand side held, and leaves the other lines as they   *)
(* are, in their order.                                                    *)
(***************************************************************************)
C9_RewritesTheLine ==
    (/\ WriteEnded
     /\ csharp_version # None
     /\ Cardinality(NeedleLines(OldLines)) = 1)
    => /\ outcome = "completed"
       /\ Len(NewLines) = Len(OldLines)
       /\ \A k \in 1..Len(OldLines) :
              NewLines[k] =
                  IF k \in NeedleLines(OldLines)
                  THEN LeftOfFirstSeparator(OldLines[k]) \o RIGHT_HEAD
                           \o Value(csharp_version) \o PREVIEW_SUFFIX \o RIGHT_TAIL
                  ELSE OldLines[k]

(***************************************************************************)
(* C10.  set_package_version(P) changes the manifest's version field only: *)
(* the manifest has the keys it had, every key but "version" has the value *)
(* it had, and "version", when the manifest has it, has the value P; a     *)
(* manifest without it gets none and the call completes.                   *)
(***************************************************************************)
C10_OnlyTheVersionField ==
    (\/ pc = "set_academy_version_string"
     \/ WriteEnded /\ csharp_version # None)
    => LET old == before.package_json.members
           new == package_json.members
       IN  /\ Keys(new) = Keys(old)
           /\ \A key \in Keys(old) :
                  Lookup(new, key) =
                      IF key = "version"
                      THEN Value(csharp_version) \o PREVIEW_SUFFIX
                      ELSE Lookup(old, key)

C10_Witness ==
    /\ pc = "set_academy_version_string"
    /\ "version" \notin Keys(before.package_json.members)
    /\ "version" \notin Keys(package_json.members)
    /\ package_json.members = before.package_json.members

====
